---- MODULE Spec2Model ----
(***************************************************************************)
(* The interview session state machine of MyBot (src/src/bot.ts): the      *)
(* session store, the turn dispatcher, the four backend tasks and the      *)
(* participant-joined handler.                                             *)
(*                                                                         *)
(* A string is a sequence of tokens; a token is one character or one fixed *)
(* phrase of a template.  An operation of the bot (one activity handled by *)
(* onMessage or onMembersAdded) is one action; what the backend, the       *)
(* document store and the channel answer during it are the action's        *)
(* inputs.  Under Spec the activities are handled one after the other: an  *)
(* action is the whole handler, from getUserState to the last send, the    *)
(* catch blocks and adapter.onTurnError (src/src/index.ts) included.       *)
(* At most one sendActivity call of an operation rejects (failAt).         *)
(***************************************************************************)
EXTENDS Integers, Sequences, FiniteSets, TLC

VARIABLES
    interviewStates,  \* Map<string, InterviewState>: a function on the ids that have a session
    sent,             \* the sendActivity calls of the last operation, in order
    last,             \* the last operation and its inputs
    departures,       \* inputs so far that depart from the nominal interview
    active,           \* the candidate identities that send activities
    turns             \* the turns suspended at an await, where activities are handled concurrently

vars == <<interviewStates, sent, last, departures, active, turns>>

(***************************************************************************)
(* Bounds                                                                  *)
(***************************************************************************)
MaxDepartures == 2    \* inputs per behaviour that depart from the nominal interview (a fault, an
                      \* off-contract or failed reply, an empty text, a re-join, the second role or name)
MaxMembers == 2       \* non-bot members listed by one conversationUpdate
MaxTurns == 2         \* activities in flight at the same time, where they are handled concurrently
MaxStalled == 6       \* history length up to which a turn that leaves the stage where it is gets taken,
                      \* where the candidate keeps answering until the interview ends

(***************************************************************************)
(* Strings                                                                 *)
(***************************************************************************)
undefined == <<"undefined">>      \* the JavaScript value undefined, where a string is expected

Truthy(s) == s # undefined /\ s # <<>>

RECURSIVE trimStart(_)
trimStart(s) == IF s # <<>> /\ Head(s) = " " THEN trimStart(Tail(s)) ELSE s

RECURSIVE trimEnd(_)
trimEnd(s) == IF s # <<>> /\ s[Len(s)] = " " THEN trimEnd(SubSeq(s, 1, Len(s) - 1)) ELSE s

trim(s) == trimEnd(trimStart(s))

\* text?.trim()
OptTrim(s) == IF s = undefined THEN undefined ELSE trim(s)

\* name?.replace(/['"]/g, '')
removeQuotes(s) == IF s = undefined THEN undefined ELSE SelectSeq(s, LAMBDA ch : ch \notin {"'", "\""})

UpperChar(ch) == CASE ch = "n" -> "N" [] ch = "a" -> "A" [] ch = "o" -> "O" [] OTHER -> ch

\* cleanName?.toUpperCase()
toUpperCase(s) == IF s = undefined THEN undefined ELSE [i \in 1..Len(s) |-> UpperChar(s[i])]

NA == <<"N", "/", "A">>

\* name.replace('.txt', ''): the first occurrence of the token is dropped
RECURSIVE replaceTxt(_)
replaceTxt(s) ==
    IF s = <<>> THEN <<>>
    ELSE IF Head(s) = ".txt" THEN Tail(s)
    ELSE <<Head(s)>> \o replaceTxt(Tail(s))

(***************************************************************************)
(* Configuration and fixed texts                                           *)
(***************************************************************************)
JdA == <<"a", ".txt">>
JdB == <<"b", ".txt">>

\* process.env.AVAILABLE_JDS?.split(',').map(j => j.trim())
AVAILABLE_JDS == <<JdA, JdB>>

maxQuestions == 5
MinQuestionLength == 20

Stages == <<"greeting", "jd_selection", "name_prompt", "pre_screen", "jd_questions", "closing", "complete">>

fixedFlow ==
    [greeting     |-> [question |-> <<"Hello! Welcome to the KPMG Global Services initial interview. I am your AI interviewer.">>,
                       nextStage |-> "jd_selection"],
     jd_selection |-> [question |-> <<>>, nextStage |-> "name_prompt"],
     name_prompt  |-> [question |-> <<"Thank you for confirming the role. To begin, please tell me your full name.">>,
                       nextStage |-> "pre_screen"],
     pre_screen   |-> [question |-> <<"It's a pleasure to meet you, ", "{name}", ". I have confirmed the Job Description ...">>,
                       nextStage |-> "jd_questions"],
     closing      |-> [question |-> <<"Thank you, ", "{name}", ", for taking the time to complete this interview. ...">>,
                       nextStage |-> "complete"]]

\* template.replace('{name}', value): the first occurrence of the token is replaced
RECURSIVE replaceName(_, _)
replaceName(s, value) ==
    IF s = <<>> THEN <<>>
    ELSE IF Head(s) = "{name}" THEN value \o Tail(s)
    ELSE <<Head(s)>> \o replaceName(Tail(s), value)

noSpeechMessage == <<"I didn't receive any speech. Could you please speak up?">>
completedMessage == <<"Your interview has been completed. Thank you!">>
unknownStateMessage == <<"I seem to be in an unknown state. Let's restart the interview. Please refresh if this persists.">>
errorMessage == <<"I'm experiencing technical difficulties. Could you please repeat your last response?">>
nameClarificationMessage == <<"I apologize, I didn't catch your name. Could you state it clearly? For example: 'My name is John Smith'">>
turnErrorMessage == <<"I apologize, but I encountered an unexpected error. Please try again.">>
turnErrorTrace == <<"OnTurnError Trace">>
errorSsml ==
    <<"<speak version='1.0' xmlns='http://www.w3.org/2001/10/synthesis' xml:lang='en-US'><prosody rate='medium'>I'm experiencing some technical difficulties.<break time='300ms'/>Could you please repeat?</prosody></speak>">>
nameClarificationSsml ==
    <<"<speak version='1.0' xmlns='http://www.w3.org/2001/10/synthesis' xml:lang='en-US'><prosody rate='medium'>I apologize, I didn't quite catch your full name.<break time='300ms'/>Could you please state it clearly?</prosody></speak>">>

selectionReprompt(n) ==
    <<"I couldn't identify that selection. Please select a number between 1 and ", ToString(n), ".">>

RECURSIVE jdList(_, _)
jdList(jds, index) ==
    IF index > Len(jds) THEN <<>>
    ELSE (IF index > 1 THEN <<", ">> ELSE <<>>)
         \o <<ToString(index), ". ">> \o replaceTxt(jds[index]) \o jdList(jds, index + 1)

jdSelectionQuestion(jds) ==
    <<"We offer interviews for the following roles: ">> \o jdList(jds, 1)
    \o <<". Please say the number or the name of the role you are here for.">>

shortQuestionFallback(currentQNum) ==
    <<"For question ", ToString(currentQNum), ", describe a complex challenge you solved that aligns with the role.">>

errorQuestionFallback(currentQNum) ==
    <<"For question ", ToString(currentQNum), ", tell me about a relevant project from your experience.">>

blobText(fileName) == <<"content of ">> \o fileName

jdFetchFailedText(fileName) ==
    <<"JD Fetch Failed for ">> \o fileName
    \o <<". Default Role: Senior Consultant. Key Skills: Leadership, Project Management, Azure.">>

(***************************************************************************)
(* Values of the responses record                                          *)
(***************************************************************************)
Num(n) == [t |-> "number", v |-> n]
NotANumber == [t |-> "string", v |-> 0]       \* a non-numeric string returned as a score
NAValue == [t |-> "N/A", v |-> 0]             \* the string 'N/A'
NoValue == [t |-> "undefined", v |-> 0]

\* x || 'N/A'
OrNA(x) == IF x.t = "undefined" \/ (x.t = "number" /\ x.v = 0) THEN NAValue ELSE x

EmptyResponse ==
    [raw_response |-> undefined, gpt_summary |-> undefined,
     clarity_score |-> NoValue, relevance_score |-> NoValue, entities |-> "undefined"]

(***************************************************************************)
(* The session store                                                       *)
(***************************************************************************)
NewInterviewState ==
    [candidateName |-> undefined,
     currentStage |-> "greeting",
     jdFileName |-> undefined,
     jdContent |-> <<>>,
     availableJDs |-> AVAILABLE_JDS,
     questionCount |-> 0,
     maxQuestions |-> maxQuestions,
     responses |-> [l \in {} |-> EmptyResponse],
     conversationHistory |-> <<>>]

has(states, userId) == userId \in DOMAIN states

\* getUserState: the map after the call (the entry is created when absent)
getUserState(states, userId) ==
    IF ~has(states, userId)
    THEN [id \in DOMAIN states \cup {userId} |-> IF id = userId THEN NewInterviewState ELSE states[id]]
    ELSE states

\* delete emptying the store
delete_Clear(states, userId) == [id \in {} |-> NewInterviewState]

\* this.interviewStates.delete(userId)
delete(states, userId) == [id \in DOMAIN states \ {userId} |-> states[id]]

(***************************************************************************)
(* The running turn: the map, the identity context.activity.from.id, the   *)
(* sendActivity calls so far and whether an exception is propagating.      *)
(***************************************************************************)
Turn(states, userId, failAt) ==
    [states |-> states, userId |-> userId, sent |-> <<>>, k |-> 0, failAt |-> failAt, thrown |-> FALSE]

\* the one element of a singleton: The({F(x) : x \in {e}}) is F(e), with e evaluated once
The(singleton) == CHOOSE v \in singleton : TRUE

\* the session object the handlers hold as `state`
State(turn) == The({c.states[c.userId] : c \in {turn}})

\* one character of the text after .replace(/&/g, '&amp;').replace(/</g, '&lt;').replace(/>/g, '&gt;')
sanitizedChar(ch) ==
    CASE ch = "&" -> "&amp;" [] ch = "<" -> "&lt;" [] ch = ">" -> "&gt;" [] OTHER -> ch

generateSsml(text) ==
    <<"<speak version='1.0' xmlns='http://www.w3.org/2001/10/synthesis' xml:lang='en-US'><prosody rate='medium' pitch='medium'>">>
    \o [i \in 1..Len(text) |-> sanitizedChar(text[i])] \o <<"</prosody></speak>">>

\* await context.sendActivity(activity), the activity having the given text and speak: the
\* failAt-th call rejects
send(turn, text, speak) ==
    The({IF c.thrown THEN c
         ELSE IF c.k + 1 = c.failAt
              THEN [c EXCEPT !.k = @ + 1, !.thrown = TRUE,
                             !.sent = Append(@, [text |-> text, speak |-> speak, ok |-> FALSE])]
              ELSE [c EXCEPT !.k = @ + 1, !.sent = Append(@, [text |-> text, speak |-> speak, ok |-> TRUE])]
         : c \in {turn}})

\* await context.sendActivity({type: 'message', text, speak: this.generateSsml(text)})
sendActivity(c, text) == send(c, text, generateSsml(text))

\* state.<field> = value
Assign(turn, field, value) ==
    The({IF c.thrown THEN c ELSE [c EXCEPT !.states[c.userId][field] = value] : c \in {turn}})

\* state.conversationHistory.push({role, content})
push(turn, role, content) ==
    The({IF c.thrown THEN c
         ELSE [c EXCEPT !.states[c.userId].conversationHistory =
                           Append(@, [role |-> role, content |-> content])]
         : c \in {turn}})

\* state.responses[`${label}_${field}`] = value
AssignResponse(turn, label, field, value) ==
    The({IF c.thrown THEN c
         ELSE LET r == State(c).responses
                  old == IF label \in DOMAIN r THEN r[label] ELSE EmptyResponse
              IN [c EXCEPT !.states[c.userId].responses =
                     [l \in DOMAIN r \cup {label} |->
                         IF l = label THEN [old EXCEPT ![field] = value] ELSE r[l]]]
         : c \in {turn}})

\* a rejected promise or a thrown error
Throw(c) == [c EXCEPT !.thrown = TRUE]

\* catch (error) { ... }: the turn as the catch block finds it
Caught(c) == [c EXCEPT !.thrown = FALSE]

Includes(seq, x) == \E i \in 1..Len(seq) : seq[i] = x

(***************************************************************************)
(* Handlers                                                                *)
(***************************************************************************)
\* fetchJobDescription returning an empty description when the document store fails
fetchJobDescription_Empty(fileName, blob) ==
    IF blob = "content" THEN blobText(fileName) ELSE <<>>

\* blob is what the document store does: "content" and "empty" are downloads (of a document
\* with text, of a document of zero bytes), "missing" and "error" end in the catch block
fetchJobDescription(fileName, blob) ==
    IF blob = "content" THEN blobText(fileName)
    ELSE IF blob = "empty" THEN <<>>
    ELSE jdFetchFailedText(fileName)

sendErrorMessage(c) == send(c, errorMessage, errorSsml)

askForJDSelection(c) ==
    LET questionText == jdSelectionQuestion(State(c).availableJDs)
        c1 == sendActivity(c, questionText)
    IN push(c1, "assistant", questionText)

sendWelcomeMessage(c) ==
    LET c0 == [c EXCEPT !.states = getUserState(c.states, c.userId)]
        welcomeMessage == fixedFlow.greeting.question
        c1 == sendActivity(c0, welcomeMessage)
        c2 == push(c1, "assistant", welcomeMessage)
        c3 == Assign(c2, "currentStage", "jd_selection")
    IN askForJDSelection(c3)

\* the questionText of sendNextQuestion
nextQuestionText(state) ==
    LET name == IF Truthy(state.candidateName) THEN state.candidateName ELSE <<"there">>
    IN IF state.currentStage = "pre_screen" THEN replaceName(fixedFlow.pre_screen.question, name)
       ELSE IF state.currentStage = "closing" THEN replaceName(fixedFlow.closing.question, name)
       ELSE <<>>

sendNextQuestion(turn) ==
    The({push(sendActivity(c, questionText), "assistant", questionText)
         : <<c, questionText>> \in {<<turn, nextQuestionText(State(turn))>>}})

sendNameClarification(c) ==
    LET c1 == send(c, nameClarificationMessage, nameClarificationSsml)
    IN push(c1, "assistant", nameClarificationMessage)

\* handleJDSelection without the availableJDs.includes(chosenFileName) test
handleJDSelection_NoIncludes(c, userText, env) ==
    LET completion == env.selection
        chosenFileName == OptTrim(completion.content)
        accepted ==
            LET c1 == Assign(c, "jdFileName", chosenFileName)
                c2 == Assign(c1, "jdContent", fetchJobDescription(chosenFileName, env.blob))
                c3 == Assign(c2, "currentStage", fixedFlow.jd_selection.nextStage)
                questionText == fixedFlow.name_prompt.question
                c4 == sendActivity(c3, questionText)
            IN push(c4, "assistant", questionText)
        rejected ==
            LET message == selectionReprompt(Len(State(c).availableJDs))
                c1 == sendActivity(c, message)
            IN push(c1, "assistant", message)
        body ==
            IF ~completion.ok THEN Throw(c)
            ELSE IF Truthy(chosenFileName) /\ chosenFileName # NA
                 THEN accepted
                 ELSE rejected
    IN IF body.thrown THEN sendErrorMessage(Caught(body)) ELSE body

\* completion is what chat.completions.create does: [ok |-> FALSE] when it rejects,
\* else the content of choices[0].message
handleJDSelection(c, userText, env) ==
    LET completion == env.selection
        chosenFileName == OptTrim(completion.content)
        accepted ==
            LET c1 == Assign(c, "jdFileName", chosenFileName)
                c2 == Assign(c1, "jdContent", fetchJobDescription(chosenFileName, env.blob))
                c3 == Assign(c2, "currentStage", fixedFlow.jd_selection.nextStage)
                questionText == fixedFlow.name_prompt.question
                c4 == sendActivity(c3, questionText)
            IN push(c4, "assistant", questionText)
        rejected ==
            LET message == selectionReprompt(Len(State(c).availableJDs))
                c1 == sendActivity(c, message)
            IN push(c1, "assistant", message)
        body ==
            IF ~completion.ok THEN Throw(c)
            ELSE IF Truthy(chosenFileName) /\ chosenFileName # NA
                    /\ Includes(State(c).availableJDs, chosenFileName)
                 THEN accepted
                 ELSE rejected
    IN IF body.thrown THEN sendErrorMessage(Caught(body)) ELSE body

handleNameExtraction(c, userText, env) ==
    LET completion == env.name
        name == OptTrim(completion.content)
        cleanName == removeQuotes(name)
        normalizedName == IF toUpperCase(cleanName) # NA THEN cleanName ELSE undefined
        body ==
            IF ~completion.ok THEN Throw(c)
            ELSE IF Truthy(normalizedName)
                 THEN LET c1 == Assign(c, "candidateName", normalizedName)
                          c2 == Assign(c1, "currentStage", fixedFlow.name_prompt.nextStage)
                      IN sendNextQuestion(c2)
                 ELSE sendNameClarification(c)
    IN IF body.thrown THEN sendNameClarification(Caught(body)) ELSE body

\* generateDynamicQuestion from the answer of the backend on: currentQNum was read before the
\* call; completion as in handleJDSelection
questionFrom(currentQNum, completion) ==
    LET questionText == OptTrim(completion.content)
    IN IF ~completion.ok THEN errorQuestionFallback(currentQNum)
       ELSE IF ~Truthy(questionText) \/ Len(questionText) < MinQuestionLength
            THEN shortQuestionFallback(currentQNum)
            ELSE questionText

\* the question text
generateDynamicQuestion(state, completion) == questionFrom(state.questionCount + 1, completion)

\* handleGPTResponseAnalysis counting the question only when the assessment succeeded
handleGPTResponseAnalysis_CountOnSuccess(c, userText, env) ==
    LET stage == IF State(c).currentStage = "jd_questions"
                 THEN "jd_q" \o ToString(State(c).questionCount + 1)
                 ELSE State(c).currentStage
        gptAnalysis == env.analysis
        c1 == IF gptAnalysis.ok
              THEN LET a1 == AssignResponse(c, stage, "gpt_summary",
                                 IF Truthy(gptAnalysis.Summary) THEN gptAnalysis.Summary ELSE <<"Summary pending.">>)
                       a2 == AssignResponse(a1, stage, "clarity_score", OrNA(gptAnalysis.ClarityScore))
                       a3 == AssignResponse(a2, stage, "relevance_score", OrNA(gptAnalysis.RelevanceScore))
                   IN AssignResponse(a3, stage, "entities",
                          IF gptAnalysis.ExtractedEntities = "undefined" THEN "[]" ELSE gptAnalysis.ExtractedEntities)
              ELSE LET a1 == AssignResponse(c, stage, "gpt_summary", <<"Analysis failed.">>)
                   IN AssignResponse(a1, stage, "entities", "[]")
    IN IF State(c1).currentStage = "jd_questions" /\ gptAnalysis.ok
       THEN Assign(c1, "questionCount", State(c1).questionCount + 1)
       ELSE c1

\* the label under which a turn's assessment is recorded
AssessmentLabel(state) ==
    IF state.currentStage = "jd_questions" THEN "jd_q" \o ToString(state.questionCount + 1)
    ELSE state.currentStage

\* handleGPTResponseAnalysis from the answer of the backend on: stage was read before the call;
\* gptAnalysis is [ok |-> FALSE] when create rejects or JSON.parse throws, else the parsed object
countQuestion(turn) ==
    The({IF State(c).currentStage = "jd_questions"
         THEN Assign(c, "questionCount", State(c).questionCount + 1)
         ELSE c
         : c \in {turn}})

recordAnalysis(c, stage, gptAnalysis) ==
    countQuestion(
        IF gptAnalysis.ok
        THEN LET a1 == AssignResponse(c, stage, "gpt_summary",
                           IF Truthy(gptAnalysis.Summary) THEN gptAnalysis.Summary ELSE <<"Summary pending.">>)
                 a2 == AssignResponse(a1, stage, "clarity_score", OrNA(gptAnalysis.ClarityScore))
                 a3 == AssignResponse(a2, stage, "relevance_score", OrNA(gptAnalysis.RelevanceScore))
             IN AssignResponse(a3, stage, "entities",
                    IF gptAnalysis.ExtractedEntities = "undefined" THEN "[]" ELSE gptAnalysis.ExtractedEntities)
        ELSE LET a1 == AssignResponse(c, stage, "gpt_summary", <<"Analysis failed.">>)
             IN AssignResponse(a1, stage, "entities", "[]"))

handleGPTResponseAnalysis(c, userText, env) ==
    recordAnalysis(c, AssessmentLabel(State(c)), env.analysis)

askNextDynamicQuestion(turn, env) ==
    The({push(sendActivity(c, questionText), "assistant", questionText)
         : <<c, questionText>> \in {<<turn, generateDynamicQuestion(State(turn), env.question)>>}})

\* parseInt(value): NaN for undefined, 'N/A' and a string that starts with no digit
NaN == [nan |-> TRUE, v |-> 0]
parseInt(x) == IF x.t = "number" THEN [nan |-> FALSE, v |-> x.v] ELSE NaN
isNaN(n) == n.nan

\* the labels completeInterview walks through: pre_screen, jd_q1 .. jd_q<maxQuestions>
stages(state) == <<"pre_screen">> \o [i \in 1..state.maxQuestions |-> "jd_q" \o ToString(i)]

\* the values under the keys `${stage}_...`, undefined where a key was never written
responseOf(state, stage) ==
    IF stage \in DOMAIN state.responses THEN state.responses[stage] ELSE EmptyResponse

\* the loop counting a stage as soon as its clarity score is a number
RECURSIVE scoreTotals_ClarityAlone(_, _)
scoreTotals_ClarityAlone(state, n) ==
    IF n = 0 THEN [totalClarityScore |-> 0, totalRelevanceScore |-> 0, validScores |-> 0]
    ELSE LET stage == stages(state)[n]
             clarity == parseInt(responseOf(state, stage).clarity_score)
             relevance == parseInt(responseOf(state, stage).relevance_score)
         IN The({IF ~isNaN(clarity)
                 THEN [totalClarityScore |-> acc.totalClarityScore + clarity.v,
                       totalRelevanceScore |-> acc.totalRelevanceScore + relevance.v,
                       validScores |-> acc.validScores + 1]
                 ELSE acc
                 : acc \in {scoreTotals_ClarityAlone(state, n - 1)}})

\* totalClarityScore, totalRelevanceScore and validScores after the first n stages of the loop
RECURSIVE scoreTotals(_, _)
scoreTotals(state, n) ==
    IF n = 0 THEN [totalClarityScore |-> 0, totalRelevanceScore |-> 0, validScores |-> 0]
    ELSE LET stage == stages(state)[n]
             clarity == parseInt(responseOf(state, stage).clarity_score)
             relevance == parseInt(responseOf(state, stage).relevance_score)
         IN The({IF ~isNaN(clarity) /\ ~isNaN(relevance)
                 THEN [totalClarityScore |-> acc.totalClarityScore + clarity.v,
                       totalRelevanceScore |-> acc.totalRelevanceScore + relevance.v,
                       validScores |-> acc.validScores + 1]
                 ELSE acc
                 : acc \in {scoreTotals(state, n - 1)}})

\* (num / den).toFixed(1) for integers num >= 0, den > 0: the nearest tenth; a tie (a
\* quotient ending in .25 or .75) is an exact double and goes to the larger tenth
toFixed1(num, den) ==
    LET n == (20 * num + den) \div (2 * den)
    IN <<ToString(n \div 10), ".", ToString(n % 10)>>

\* the sums for which (sum / (valid * 2) / 5 * 100), evaluated in double arithmetic, falls just
\* below the tie it equals in exact arithmetic: the quotients 2.875, 5.125 and 6.375, whose
\* products are 57.49999999999999, 102.49999999999999 and 127.49999999999999
percentBelowTie(sum, valid) == \E eighths \in {23, 41, 51} : 4 * sum = valid * eighths

\* (sum / (valid * 2) / 5 * 100).toFixed(0) for integers sum >= 0, valid > 0
toFixed0Percent(sum, valid) ==
    LET n == (20 * sum + valid) \div (2 * valid)
    IN <<ToString(IF percentBelowTie(sum, valid) THEN n - 1 ELSE n)>>

avgClarity(state) ==
    LET t == scoreTotals(state, Len(stages(state)))
    IN IF t.validScores > 0 THEN toFixed1(t.totalClarityScore, t.validScores) ELSE NA

avgRelevance(state) ==
    LET t == scoreTotals(state, Len(stages(state)))
    IN IF t.validScores > 0 THEN toFixed1(t.totalRelevanceScore, t.validScores) ELSE NA

\* overallScore reporting 0 when no stage has usable scores
overallScore_ZeroWhenNone(state) ==
    LET t == scoreTotals(state, Len(stages(state)))
    IN toFixed0Percent(t.totalClarityScore + t.totalRelevanceScore,
                       IF t.validScores > 0 THEN t.validScores ELSE 1)

overallScore(state) ==
    LET t == scoreTotals(state, Len(stages(state)))
    IN IF t.validScores > 0
       THEN toFixed0Percent(t.totalClarityScore + t.totalRelevanceScore, t.validScores)
       ELSE NA

\* clarity || 'N/A' on the parsed score
scoreOrNA(n) == IF isNaN(n) \/ n.v = 0 THEN NA ELSE <<ToString(n.v)>>

\* the entities joined, or 'No structured data.' when the value is no array
entityList(extractedEntities) ==
    CASE extractedEntities = "[]" -> <<>>
      [] extractedEntities = "[e]" -> <<"e.text (e.entity)">>
      [] OTHER -> <<"No structured data.">>

\* detailedReport after the first n stages of the loop
RECURSIVE detailedReport(_, _)
detailedReport(state, n) ==
    IF n = 0 THEN <<>>
    ELSE LET stage == stages(state)[n]
             r == responseOf(state, stage)
             gptSummary == IF Truthy(r.gpt_summary) THEN r.gpt_summary ELSE <<"No data.">>
             heading == IF stage = "pre_screen" THEN <<"--- Initial Screening ---">>
                        ELSE <<"--- Question ", ToString((n - 1) % 10), " ---">>
         IN detailedReport(state, n - 1)
            \o heading \o <<"Summary: ">> \o gptSummary
            \o <<"Clarity/Relevance: ">> \o scoreOrNA(parseInt(r.clarity_score))
            \o <<"/">> \o scoreOrNA(parseInt(r.relevance_score))
            \o <<"Entities: ">> \o entityList(r.entities)

\* the template of the final summary
summaryTemplate(state, clarity, relevance, overall) ==
    <<"Interview Summary for ">>
    \o (IF Truthy(state.candidateName) THEN state.candidateName ELSE <<"Candidate">>)
    \o <<":", "--- Final Assessment ---", "Role: ">>
    \o (IF state.jdFileName # undefined /\ Truthy(replaceTxt(state.jdFileName))
        THEN replaceTxt(state.jdFileName) ELSE NA)
    \o <<"Questions Answered: ", ToString(state.questionCount)>>
    \o <<"Average Clarity: **">> \o clarity \o <<"/5**">>
    \o <<"Average Relevance: **">> \o relevance \o <<"/5**">>
    \o <<"Qualification Score: **">> \o overall \o <<"%**">>
    \o detailedReport(state, Len(stages(state)))
    \o <<"Your responses will be reviewed by the KPMG hiring team. Thank you!">>

summaryText(state) ==
    summaryTemplate(state, avgClarity(state), avgRelevance(state), overallScore(state))

\* the template literal finalSsml: ${state.candidateName} and ${overallScore} as they are
finalSsml(state) ==
    <<"<speak version='1.0' xmlns='http://www.w3.org/2001/10/synthesis' xml:lang='en-US'><prosody rate='medium'>Interview completed, ">>
    \o state.candidateName
    \o <<". Your score is ">> \o overallScore(state)
    \o <<" percent. Thank you for your time!</prosody></speak>">>

\* this.interviewStates.delete(context.activity.from.id), reached when nothing before it threw
deleteSession(turn) ==
    The({IF c.thrown THEN c ELSE [c EXCEPT !.states = delete(c.states, c.userId)] : c \in {turn}})

\* the end of completeInterview: the summary is sent, pushed to the history, the session deleted
deliverSummary(c, text, speak) ==
    The({deleteSession(push(send(c, summary, speak), "assistant", summary)) : summary \in {text}})

\* completeInterview once the stage is complete
summarise(turn) ==
    The({deliverSummary(c, summaryText(State(c)), finalSsml(State(c))) : c \in {turn}})

completeInterview(c) == summarise(Assign(c, "currentStage", "complete"))

\* the jd_questions case after the assessment: the next question, or the closing question
nextOrClosing(turn, env) ==
    The({IF State(c).questionCount < State(c).maxQuestions
         THEN askNextDynamicQuestion(c, env)
         ELSE sendNextQuestion(Assign(c, "currentStage", "closing"))
         : c \in {turn}})

\* the try block of processUserMessage
Dispatch(turn, userText, env) ==
    The({LET currentStage == State(c).currentStage
         IN IF currentStage = "jd_selection" THEN handleJDSelection(c, userText, env)
            ELSE IF currentStage = "name_prompt" THEN handleNameExtraction(c, userText, env)
            ELSE IF currentStage = "pre_screen" THEN
                 LET c1 == AssignResponse(c, "pre_screen", "raw_response", userText)
                     c2 == handleGPTResponseAnalysis(c1, userText, env)
                     c3 == Assign(c2, "currentStage", fixedFlow.pre_screen.nextStage)
                 IN askNextDynamicQuestion(c3, env)
            ELSE IF currentStage = "jd_questions" THEN
                 LET c1 == AssignResponse(c, "jd_q" \o ToString(State(c).questionCount + 1),
                                          "raw_response", userText)
                 IN nextOrClosing(handleGPTResponseAnalysis(c1, userText, env), env)
            ELSE IF currentStage = "closing" THEN completeInterview(c)
            ELSE IF currentStage = "complete" THEN sendActivity(c, completedMessage)
            ELSE sendActivity(c, unknownStateMessage)
         : c \in {turn}})

\* processUserMessage without the early return on an empty text
processUserMessage_NoEmptyReturn(c, text, env) ==
    LET userText == OptTrim(text)
        c0 == [c EXCEPT !.states = getUserState(c.states, c.userId)]
        c1 == IF ~Truthy(userText) THEN sendActivity(c0, noSpeechMessage) ELSE c0
        body == Dispatch(push(c1, "user", userText), userText, env)
    IN IF body.thrown THEN sendErrorMessage(Caught(body)) ELSE body

\* the catch block of processUserMessage, body being the turn as the try block left it
processUserMessageCatch(body) ==
    The({IF c.thrown THEN sendErrorMessage(Caught(c)) ELSE c : c \in {body}})

processUserMessage(c, text, env) ==
    LET userText == OptTrim(text)
        c0 == [c EXCEPT !.states = getUserState(c.states, c.userId)]
    IN IF ~Truthy(userText) THEN sendActivity(c0, noSpeechMessage)
       ELSE processUserMessageCatch(Dispatch(push(c0, "user", userText), userText, env))

\* the onMembersAdded handler: one sendWelcomeMessage per member that is not the bot
RECURSIVE membersAdded(_, _)
membersAdded(c, members) ==
    IF members = 0 \/ c.thrown THEN c ELSE membersAdded(sendWelcomeMessage(c), members - 1)

\* adapter.onTurnError: runs when the handler's promise rejects
onTurnErrorHandler(turn) ==
    The({IF ~c.thrown THEN c
         ELSE LET c1 == [c EXCEPT !.thrown = FALSE, !.failAt = 0]
              IN send(send(c1, turnErrorTrace, undefined), turnErrorMessage, undefined)
         : c \in {turn}})

(***************************************************************************)
(* What the environment can answer during one operation                    *)
(***************************************************************************)
Reply(content) == [ok |-> TRUE, content |-> content]
Rejected == [ok |-> FALSE, content |-> undefined]
NotCalled == Reply(undefined)

NonEmptyTexts == {<<" ", "h", "i">>}
EmptyTexts == {undefined, <<>>, <<" ">>}

SelectionNominal == {Reply(<<" ">> \o JdA \o <<" ">>)}
SelectionAccepted == SelectionNominal \cup {Reply(JdB)}
SelectionRefused == {Reply(NA), Reply(<<>>), Reply(undefined), Reply(<<"a">>), Reply(<<"c", ".txt">>), Rejected}

NameNominal == {Reply(<<"\"", "A", "n", "\"", " ">>)}
NameAccepted == NameNominal \cup {Reply(<<"B", "&", "o">>)}
NameRefused == {Reply(NA), Reply(<<"n", "/", "a">>), Reply(<<"'", "N", "/", "A", "'">>),
                Reply(<<>>), Reply(<<"'", "'">>), Reply(undefined), Rejected}

Analysis(ok, summary, clarity, relevance, entities) ==
    [ok |-> ok, Summary |-> summary, ClarityScore |-> clarity, RelevanceScore |-> relevance,
     ExtractedEntities |-> entities]
AnalysisNominal == {Analysis(TRUE, <<"clear answer">>, Num(4), Num(5), "[e]")}
AnalysisAbnormal ==
    {Analysis(FALSE, undefined, NoValue, NoValue, "undefined"),       \* create rejects, or the text is no JSON
     Analysis(TRUE, undefined, NoValue, NoValue, "undefined"),        \* the object {}
     Analysis(TRUE, <<>>, Num(9), NotANumber, "text")}                \* fields off the contract

QuestionOfLength(n) == [i \in 1..n |-> "q"]
QuestionNominal == {Reply(QuestionOfLength(MinQuestionLength))}
QuestionAbnormal == {Reply(QuestionOfLength(MinQuestionLength - 1)), Rejected}

BlobNominal == {"content"}
BlobAbnormal == {"missing", "error"}
BlobEmpty == {"empty"}

Env(selection, blob, name, analysis, question, failAt) ==
    [selection |-> selection, blob |-> blob, name |-> name, analysis |-> analysis,
     question |-> question, failAt |-> failAt]

NoAnalysis == Analysis(TRUE, undefined, NoValue, NoValue, "undefined")

Cost(x, nominal) == IF x \in nominal THEN 0 ELSE 1

currentStageOf(u) == IF has(interviewStates, u) THEN interviewStates[u].currentStage ELSE "none"

(***************************************************************************)
(* Operations                                                              *)
(***************************************************************************)
\* the state after the activity has been handled by turn c
Handled(c, op, u, members, text, env, cost) ==
    /\ departures + cost <= MaxDepartures
    /\ departures' = departures + cost
    /\ \E d \in {onTurnErrorHandler(c)} :
          /\ interviewStates' = d.states
          /\ sent' = d.sent
    /\ last' = [op |-> op, u |-> u, members |-> members, text |-> text, env |-> env,
                pre |-> currentStageOf(u), escaped |-> c.thrown]
    /\ UNCHANGED <<active, turns>>

NoEnv(failAt) == Env(NotCalled, "content", NotCalled, NoAnalysis, NotCalled, failAt)

\* a conversationUpdate activity listing `members` members other than the bot
MembersAdded(u) ==
    \E members \in 0..MaxMembers : \E failAt \in 0..(2 * members) :
        Handled(membersAdded(Turn(interviewStates, u, failAt), members),
                "MembersAdded", u, members, undefined, NoEnv(failAt),
                (IF has(interviewStates, u) /\ members > 0 THEN 1 ELSE 0)
                + (IF members = 0 THEN 1 ELSE members - 1)
                + (IF failAt > 0 THEN 1 ELSE 0))

Message(u, text, env, cost) ==
    Handled(processUserMessage(Turn(interviewStates, u, env.failAt), text, env),
            "Message", u, 0, text, env, cost + (IF env.failAt > 0 THEN 1 ELSE 0))

\* a message activity without text
MessageEmpty(u) ==
    \E text \in EmptyTexts : \E failAt \in 0..1 : Message(u, text, NoEnv(failAt), 1)

\* a message activity in a stage the dispatcher has no handler for
MessageNoHandler(u) ==
    /\ currentStageOf(u) \in {"none", "greeting", "complete"}
    /\ \E text \in NonEmptyTexts : \E failAt \in 0..1 : Message(u, text, NoEnv(failAt), 1)

MessageJDSelection(u) ==
    /\ currentStageOf(u) = "jd_selection"
    /\ \E text \in NonEmptyTexts : \E failAt \in 0..1 :
       \/ \E selection \in SelectionAccepted : \E blob \in BlobNominal \cup BlobAbnormal \cup BlobEmpty :
             Message(u, text, Env(selection, blob, NotCalled, NoAnalysis, NotCalled, failAt),
                     Cost(selection, SelectionNominal) + Cost(blob, BlobNominal))
       \/ \E selection \in SelectionRefused :
             Message(u, text, Env(selection, "content", NotCalled, NoAnalysis, NotCalled, failAt), 1)

MessageNamePrompt(u) ==
    /\ currentStageOf(u) = "name_prompt"
    /\ \E text \in NonEmptyTexts : \E failAt \in 0..1 : \E name \in NameAccepted \cup NameRefused :
          Message(u, text, Env(NotCalled, "content", name, NoAnalysis, NotCalled, failAt),
                  Cost(name, NameNominal))

MessagePreScreen(u) ==
    /\ currentStageOf(u) = "pre_screen"
    /\ \E text \in NonEmptyTexts : \E failAt \in 0..1 :
       \E analysis \in AnalysisNominal \cup AnalysisAbnormal :
       \E question \in QuestionNominal \cup QuestionAbnormal :
          Message(u, text, Env(NotCalled, "content", NotCalled, analysis, question, failAt),
                  Cost(analysis, AnalysisNominal) + Cost(question, QuestionNominal))

MessageJDQuestions(u) ==
    /\ currentStageOf(u) = "jd_questions"
    /\ \E text \in NonEmptyTexts : \E failAt \in 0..1 :
       \E analysis \in AnalysisNominal \cup AnalysisAbnormal :
       \* the next question is generated only while questions remain after this answer
       \E question \in (IF interviewStates[u].questionCount + 1 < interviewStates[u].maxQuestions
                        THEN QuestionNominal \cup QuestionAbnormal
                        ELSE {NotCalled}) :
          Message(u, text, Env(NotCalled, "content", NotCalled, analysis, question, failAt),
                  Cost(analysis, AnalysisNominal) + Cost(question, QuestionNominal \cup {NotCalled}))

MessageClosing(u) ==
    /\ currentStageOf(u) = "closing"
    /\ \E text \in NonEmptyTexts : \E failAt \in 0..1 : Message(u, text, NoEnv(failAt), 0)

\* no activity is being handled
NoTurn ==
    [pc |-> "idle", u |-> "none", ref |-> 0, branch |-> "none", label |-> "none",
     currentQNum |-> 0, text |-> <<>>, speak |-> <<>>, after |-> "none"]

NoTurns == [run |-> [slot \in 1..MaxTurns |-> NoTurn], detached |-> [ref \in {} |-> NewInterviewState]]

InitLast ==
    [op |-> "none", u |-> "none", members |-> 0, text |-> undefined, env |-> NoEnv(0),
     pre |-> "none", escaped |-> FALSE]

Init ==
    /\ interviewStates = [id \in {} |-> NewInterviewState]
    /\ sent = <<>>
    /\ last = InitLast
    /\ departures = 0
    /\ active = {"u1"}
    /\ turns = NoTurns

Next ==
    \/ \E u \in active : MembersAdded(u)
    \/ \E u \in active : MessageEmpty(u)
    \/ \E u \in active : MessageNoHandler(u)
    \/ \E u \in active : MessageJDSelection(u)
    \/ \E u \in active : MessageNamePrompt(u)
    \/ \E u \in active : MessagePreScreen(u)
    \/ \E u \in active : MessageJDQuestions(u)
    \/ \E u \in active : MessageClosing(u)

Spec == Init /\ [][Next]_vars

\* two candidate identities send activities to the one bot; between them one input departs
\* from the nominal interview
InitTwo ==
    /\ interviewStates = [id \in {} |-> NewInterviewState]
    /\ sent = <<>>
    /\ last = InitLast
    /\ departures = MaxDepartures - 1
    /\ active = {"u1", "u2"}
    /\ turns = NoTurns

SpecTwo == InitTwo /\ [][Next]_vars

(***************************************************************************)
(* The candidate who keeps answering: one identity, every send succeeds,   *)
(* every activity after the first is a message with text, and the backend  *)
(* answers or fails each call.  Turns are handled one after the other.     *)
(***************************************************************************)
Candidate == "u1"

Stalled == has(interviewStates, Candidate)
           /\ Len(interviewStates[Candidate].conversationHistory) >= MaxStalled

LiveEnv(selection, name, analysis, question) == Env(selection, "content", name, analysis, question, 0)

LiveBackendFailures == {Reply(NA), Rejected}

\* the session is created by the joined signal
LiveJoined ==
    /\ last.op = "none"
    /\ Handled(membersAdded(Turn(interviewStates, Candidate, 0), 1),
               "MembersAdded", Candidate, 1, undefined, NoEnv(0), 0)

\* a text in a stage the dispatcher has no handler for; with no session yet, the text creates it
LiveUnhandled ==
    /\ currentStageOf(Candidate) \in {"none", "greeting", "complete"}
    /\ ~Stalled
    /\ \E text \in NonEmptyTexts : Message(Candidate, text, NoEnv(0), 0)

LiveSelectionRefused ==
    /\ currentStageOf(Candidate) = "jd_selection"
    /\ ~Stalled
    /\ \E text \in NonEmptyTexts : \E selection \in LiveBackendFailures :
          Message(Candidate, text, LiveEnv(selection, NotCalled, NoAnalysis, NotCalled), 0)

LiveSelectionAccepted ==
    /\ currentStageOf(Candidate) = "jd_selection"
    /\ \E text \in NonEmptyTexts : \E selection \in SelectionNominal :
          Message(Candidate, text, LiveEnv(selection, NotCalled, NoAnalysis, NotCalled), 0)

LiveNameRefused ==
    /\ currentStageOf(Candidate) = "name_prompt"
    /\ ~Stalled
    /\ \E text \in NonEmptyTexts : \E name \in LiveBackendFailures :
          Message(Candidate, text, LiveEnv(NotCalled, name, NoAnalysis, NotCalled), 0)

LiveNameAccepted ==
    /\ currentStageOf(Candidate) = "name_prompt"
    /\ \E text \in NonEmptyTexts : \E name \in NameNominal :
          Message(Candidate, text, LiveEnv(NotCalled, name, NoAnalysis, NotCalled), 0)

LiveAnswer ==
    /\ currentStageOf(Candidate) \in {"pre_screen", "jd_questions"}
    /\ \E text \in NonEmptyTexts :
       \E analysis \in AnalysisNominal \cup {Analysis(FALSE, undefined, NoValue, NoValue, "undefined")} :
       \E question \in QuestionNominal :
          Message(Candidate, text, LiveEnv(NotCalled, NotCalled, analysis, question), 0)

LiveClosing ==
    /\ currentStageOf(Candidate) = "closing"
    /\ \E text \in NonEmptyTexts : Message(Candidate, text, NoEnv(0), 0)

NextLive ==
    \/ LiveJoined
    \/ LiveUnhandled
    \/ LiveSelectionRefused
    \/ LiveSelectionAccepted
    \/ LiveNameRefused
    \/ LiveNameAccepted
    \/ LiveAnswer
    \/ LiveClosing

\* the candidate keeps sending text, and the backend ends up resolving the selection and the name
SpecLive ==
    /\ Init
    /\ [][NextLive]_vars
    /\ WF_vars(LiveUnhandled)
    /\ WF_vars(LiveSelectionAccepted)
    /\ WF_vars(LiveNameAccepted)
    /\ WF_vars(LiveAnswer)
    /\ WF_vars(LiveClosing)

(***************************************************************************)
(* The aggregation of completeInterview over interviews whose assessments  *)
(* vary: from a session that waits for the pre-screen answer, every answer *)
(* gets one of AggregateAnalyses and every send of a question succeeds.    *)
(***************************************************************************)
ScoredAnalysis(clarity, relevance) == Analysis(TRUE, <<"clear answer">>, clarity, relevance, "[e]")

AggregateAnalyses ==
    {Analysis(FALSE, undefined, NoValue, NoValue, "undefined"),   \* the call fails: no scores recorded
     ScoredAnalysis(Num(4), Num(5)),
     ScoredAnalysis(Num(2), Num(3)),
     ScoredAnalysis(Num(3), Num(3)),
     ScoredAnalysis(Num(5), NotANumber),                         \* one score is no number
     ScoredAnalysis(Num(9), Num(9))}                             \* numbers outside 1-5

\* the store after a participant joined and gave a role and a name
ReadyForPreScreen ==
    LET text == <<"h", "i">>
        joined == membersAdded(Turn([id \in {} |-> NewInterviewState], "u1", 0), 1)
        selected == processUserMessage(Turn(joined.states, "u1", 0), text,
                        Env(Reply(JdA), "content", NotCalled, NoAnalysis, NotCalled, 0))
        named == processUserMessage(Turn(selected.states, "u1", 0), text,
                        Env(NotCalled, "content", Reply(<<"A", "n">>), NoAnalysis, NotCalled, 0))
    IN named.states

\* a pre_screen or jd_questions answer assessed with one of AggregateAnalyses
MessageAssessed(u) ==
    /\ currentStageOf(u) \in {"pre_screen", "jd_questions"}
    /\ \E text \in NonEmptyTexts : \E analysis \in AggregateAnalyses :
       \E question \in (IF currentStageOf(u) = "pre_screen"
                           \/ interviewStates[u].questionCount + 1 < interviewStates[u].maxQuestions
                        THEN QuestionNominal ELSE {NotCalled}) :
          Message(u, text, Env(NotCalled, "content", NotCalled, analysis, question, 0), 0)

InitAggregate ==
    /\ interviewStates = ReadyForPreScreen
    /\ sent = <<>>
    /\ last = InitLast
    /\ departures = 0
    /\ active = {"u1"}
    /\ turns = NoTurns

NextAggregate ==
    \/ \E u \in active : MessageAssessed(u)
    \/ \E u \in active : MessageClosing(u)

SpecAggregate == InitAggregate /\ [][NextAggregate]_vars

(***************************************************************************)
(* Activities handled concurrently: app.post('/api/messages') starts a     *)
(* handler for every request and MyBot holds no lock, so a handler runs    *)
(* until its next await and any other handler may run before it resumes.   *)
(* One action is one such stretch of processUserMessage.  Here the         *)
(* candidate has given a role and a name, sends messages with text, and    *)
(* every send succeeds.  A handler keeps the session object it fetched:    *)
(* ref 0 is the object stored under its identity, another ref an object    *)
(* that was removed from the store while the handler was suspended.        *)
(***************************************************************************)
Slots == 1..MaxTurns

Running(slot) == turns.run[slot].pc # "idle"

\* the session object a suspended handler holds as `state`
Obj(t) == IF t.ref = 0 THEN interviewStates[t.u] ELSE turns.detached[t.ref]

\* a turn context over the one object obj
Local(obj, u) == Turn([id \in {u} |-> obj], u, 0)

\* the suspended handlers, without the removed objects no handler holds any more
Collect(run, detached) ==
    [run |-> run,
     detached |-> [ref \in {r \in DOMAIN detached : \E slot \in Slots : run[slot].pc # "idle" /\ run[slot].ref = r}
                     |-> detached[ref]]]

StepOf(op, t, pre) ==
    [op |-> op, u |-> t.u, members |-> 0, text |-> t.text, env |-> NoEnv(0), pre |-> pre, escaped |-> FALSE]

\* the handler in slot goes on as t2, having left its session object as obj2 and sent message
Resumed(op, slot, t2, obj2, message, cost) ==
    LET t == turns.run[slot]
    IN /\ departures + cost <= MaxDepartures
       /\ departures' = departures + cost
       /\ interviewStates' = IF t.ref = 0 THEN [interviewStates EXCEPT ![t.u] = obj2] ELSE interviewStates
       /\ turns' = Collect([turns.run EXCEPT ![slot] = t2],
                           IF t.ref = 0 THEN turns.detached ELSE [turns.detached EXCEPT ![t.ref] = obj2])
       /\ sent' = message
       /\ last' = StepOf(op, t, Obj(t).currentStage)
       /\ UNCHANGED active

\* processUserMessage from its start to the first await of the branch taken
TurnStart(u) ==
    \E slot \in Slots : \E text \in NonEmptyTexts :
        /\ ~Running(slot)
        /\ \A other \in Slots : other < slot => Running(other)
        \* jd_selection and name_prompt are not re-entered: no participant joins here
        /\ currentStageOf(u) \notin {"jd_selection", "name_prompt"}
        /\ LET userText == OptTrim(text)
               stage == currentStageOf(u)
               cost == (IF \E other \in Slots : Running(other) /\ turns.run[other].u = u THEN 1 ELSE 0)
                       + (IF stage \in {"pre_screen", "jd_questions", "closing"} THEN 0 ELSE 1)
               c0 == push(Turn(getUserState(interviewStates, u), u, 0), "user", userText)
               started == [NoTurn EXCEPT !.u = u, !.branch = State(c0).currentStage]
               c1 == IF State(c0).currentStage \in {"pre_screen", "jd_questions"}
                     THEN AssignResponse(c0, AssessmentLabel(State(c0)), "raw_response", userText)
                     ELSE IF State(c0).currentStage = "closing"
                     THEN Assign(c0, "currentStage", "complete")
                     ELSE c0
               t1 == IF State(c0).currentStage \in {"pre_screen", "jd_questions"}
                     THEN [started EXCEPT !.pc = "analysis", !.label = AssessmentLabel(State(c0))]
                     ELSE IF State(c0).currentStage = "closing"
                     THEN [started EXCEPT !.pc = "send", !.text = summaryText(State(c1)),
                                           !.speak = finalSsml(State(c1)), !.after = "complete"]
                     ELSE IF State(c0).currentStage = "complete"
                     THEN [started EXCEPT !.pc = "send", !.text = completedMessage]
                     ELSE [started EXCEPT !.pc = "send", !.text = unknownStateMessage]
           IN /\ departures + cost <= MaxDepartures
              /\ departures' = departures + cost
              /\ interviewStates' = c1.states
              /\ turns' = [turns EXCEPT !.run[slot] = t1]
              /\ sent' = <<>>
              /\ last' = StepOf("TurnStart", [t1 EXCEPT !.text = userText], stage)
              /\ UNCHANGED active

\* the assessment call returns: handleGPTResponseAnalysis finishes and processUserMessage
\* goes on to the await of the question generation or of the closing prompt
AnalysisDone(slot) ==
    LET t == turns.run[slot]
    IN /\ t.pc = "analysis"
       /\ \E gptAnalysis \in AnalysisNominal \cup {Analysis(FALSE, undefined, NoValue, NoValue, "undefined")} :
            LET c1 == recordAnalysis(Local(Obj(t), t.u), t.label, gptAnalysis)
                c2 == IF t.branch = "pre_screen"
                      THEN Assign(c1, "currentStage", fixedFlow.pre_screen.nextStage)
                      ELSE c1
                c3 == Assign(c2, "currentStage", "closing")
            IN IF t.branch = "pre_screen" \/ State(c2).questionCount < State(c2).maxQuestions
               THEN Resumed("AnalysisDone", slot,
                            [t EXCEPT !.pc = "question", !.currentQNum = State(c2).questionCount + 1],
                            State(c2), <<>>, Cost(gptAnalysis, AnalysisNominal))
               ELSE Resumed("AnalysisDone", slot,
                            [t EXCEPT !.pc = "send", !.text = nextQuestionText(State(c3)), !.after = "push"],
                            State(c3), <<>>, Cost(gptAnalysis, AnalysisNominal))

\* the question call returns: askNextDynamicQuestion goes on to the await of its send
QuestionDone(slot) ==
    LET t == turns.run[slot]
    IN /\ t.pc = "question"
       /\ \E completion \in QuestionNominal \cup QuestionAbnormal :
            Resumed("QuestionDone", slot,
                    [t EXCEPT !.pc = "send", !.text = questionFrom(t.currentQNum, completion), !.after = "push"],
                    Obj(t), <<>>, Cost(completion, QuestionNominal))

\* a send of a question, a prompt or a notice returns: the text is pushed where the code
\* pushes it, and the handler ends
SendDone(slot) ==
    LET t == turns.run[slot]
    IN /\ t.pc = "send"
       /\ t.after # "complete"
       /\ Resumed("SendDone", slot, NoTurn,
                  IF t.after = "push" THEN State(push(Local(Obj(t), t.u), "assistant", t.text)) ELSE Obj(t),
                  <<[text |-> t.text, speak |-> generateSsml(t.text), ok |-> TRUE]>>, 0)

\* the send of the final summary returns: completeInterview pushes the text and deletes the
\* entry stored under the identity, whichever object that is by now
SummarySendDone(slot) ==
    LET t == turns.run[slot]
        obj2 == State(push(Local(Obj(t), t.u), "assistant", t.text))
        map == IF t.ref = 0 THEN [interviewStates EXCEPT ![t.u] = obj2] ELSE interviewStates
        detached == IF t.ref = 0 THEN turns.detached ELSE [turns.detached EXCEPT ![t.ref] = obj2]
        holders == {other \in Slots \ {slot} : Running(other) /\ turns.run[other].u = t.u
                                                 /\ turns.run[other].ref = 0}
        fresh == CHOOSE ref \in 1..(MaxTurns + 1) : ref \notin DOMAIN detached
    IN /\ t.pc = "send"
       /\ t.after = "complete"
       /\ interviewStates' = delete(map, t.u)
       /\ turns' = IF has(map, t.u) /\ holders # {}
                   THEN Collect([other \in Slots |-> IF other = slot THEN NoTurn
                                                    ELSE IF other \in holders
                                                    THEN [turns.run[other] EXCEPT !.ref = fresh]
                                                    ELSE turns.run[other]],
                                [ref \in DOMAIN detached \cup {fresh} |->
                                    IF ref = fresh THEN map[t.u] ELSE detached[ref]])
                   ELSE Collect([turns.run EXCEPT ![slot] = NoTurn], detached)
       /\ sent' = <<[text |-> t.text, speak |-> t.speak, ok |-> TRUE]>>
       /\ last' = StepOf("SummarySendDone", t, Obj(t).currentStage)
       /\ UNCHANGED <<departures, active>>

InitInterleaved ==
    /\ interviewStates = ReadyForPreScreen
    /\ sent = <<>>
    /\ last = InitLast
    /\ departures = 0
    /\ active = {"u1"}
    /\ turns = NoTurns

NextInterleaved ==
    \/ \E u \in active : TurnStart(u)
    \/ \E slot \in Slots : AnalysisDone(slot)
    \/ \E slot \in Slots : QuestionDone(slot)
    \/ \E slot \in Slots : SendDone(slot)
    \/ \E slot \in Slots : SummarySendDone(slot)

SpecInterleaved == InitInterleaved /\ [][NextInterleaved]_vars

\* the same for two candidates, each having given a role and a name; between them one input
\* departs from the nominal interview
InitInterleavedTwo ==
    /\ interviewStates = [id \in {"u1", "u2"} |-> ReadyForPreScreen["u1"]]
    /\ sent = <<>>
    /\ last = InitLast
    /\ departures = MaxDepartures - 1
    /\ active = {"u1", "u2"}
    /\ turns = NoTurns

SpecInterleavedTwo == InitInterleavedTwo /\ [][NextInterleaved]_vars

(***************************************************************************)
(* Properties                                                              *)
(***************************************************************************)
Sessions == DOMAIN interviewStates

StageRank(stage) == CHOOSE i \in 1..Len(Stages) : Stages[i] = stage

\* the last operation was a message activity whose text is empty after trimming
LastWasEmptyMessage == last.op = "Message" /\ ~Truthy(OptTrim(last.text))

\* the last operation was a message activity with text
LastWasTextMessage == last.op = "Message" /\ Truthy(OptTrim(last.text))

SentTexts(texts) == {i \in 1..Len(sent) : sent[i].text \in texts}

\* C1: in every reachable state every session's questionCount is at most its maxQuestions.
C1_QuestionCountBounded ==
    \A u \in Sessions : interviewStates[u].questionCount <= interviewStates[u].maxQuestions

\* C2: no operation on an existing session (message turn, empty turn, participant-joined
\* signal) moves its stage backward in the order greeting < jd_selection < name_prompt <
\* pre_screen < jd_questions < closing < complete.
C2_StageNeverMovesBackward ==
    [][\A u \in Sessions \cap Sessions' :
          StageRank(interviewStates'[u].currentStage) >= StageRank(interviewStates[u].currentStage)]_vars

\* C3: no session waits for an answer in stage jd_questions with questionCount >= maxQuestions:
\* the turn that brings the count to the bound moves the session to closing.
C3_NoQuestionBeyondBound ==
    \A u \in Sessions :
        interviewStates[u].currentStage = "jd_questions"
            => interviewStates[u].questionCount < interviewStates[u].maxQuestions

\* C4: at the end of every operation, no session in the store has stage complete (a session
\* that reached complete has been removed).
C4_CompleteMeansRemoved ==
    \A u \in Sessions : interviewStates[u].currentStage # "complete"

\* C5: at the end of every operation whose sends all succeeded, no session in the store has
\* stage greeting: whichever trigger created it, the welcome and the JD-selection request
\* were sent and the stage is jd_selection.
C5_NeverRestsInGreeting ==
    (\A i \in 1..Len(sent) : sent[i].ok)
        => \A u \in Sessions : interviewStates[u].currentStage # "greeting"

\* C6: when a send fails while a message with text is handled for an existing session, the
\* candidate receives the technical-difficulties message and the session's stage,
\* candidateName, selected JD, questionCount and responses are as before the turn.
C6_FaultLeavesSessionUnchanged ==
    [][\A u \in Sessions :
          (/\ last'.op = "Message" /\ last'.u = u /\ Truthy(OptTrim(last'.text))
           /\ \E i \in 1..Len(sent') : ~sent'[i].ok)
          => /\ u \in Sessions'
             /\ \E i \in 1..Len(sent') : sent'[i].text = errorMessage /\ sent'[i].ok
             /\ interviewStates'[u].currentStage = interviewStates[u].currentStage
             /\ interviewStates'[u].candidateName = interviewStates[u].candidateName
             /\ interviewStates'[u].jdFileName = interviewStates[u].jdFileName
             /\ interviewStates'[u].jdContent = interviewStates[u].jdContent
             /\ interviewStates'[u].questionCount = interviewStates[u].questionCount
             /\ interviewStates'[u].responses = interviewStates[u].responses]_vars

\* C7: a message activity whose text is absent, empty or blank, handled for an existing
\* session in any stage, leaves the stage unchanged, sends the "didn't receive any speech"
\* re-prompt exactly once (and nothing else unless that send fails), and leaves the
\* responses as they were.
C7_EmptyTextKeepsStage ==
    [][\A u \in Sessions :
          (last'.op = "Message" /\ last'.u = u /\ ~Truthy(OptTrim(last'.text)))
          => /\ u \in Sessions'
             /\ interviewStates'[u].currentStage = interviewStates[u].currentStage
             /\ interviewStates'[u].responses = interviewStates[u].responses
             /\ Len(sent') >= 1
             /\ sent'[1].text = noSpeechMessage
             /\ \A i \in 2..Len(sent') : sent'[i].text # noSpeechMessage
             /\ (sent'[1].ok => Len(sent') = 1)]_vars

\* C7 witness: an empty text was handled for a session waiting in jd_questions with answers
\* recorded, and the session is still there.
C7_Witness ==
    /\ LastWasEmptyMessage
    /\ last.pre = "jd_questions"
    /\ last.u \in Sessions
    /\ interviewStates[last.u].currentStage = "jd_questions"
    /\ interviewStates[last.u].questionCount = 2
    /\ SentTexts({noSpeechMessage}) = {1}

\* C8: after a message activity without text from an identity that had no session, the
\* store still has no entry for that identity.
C8_EmptyTextCreatesNoSession ==
    (LastWasEmptyMessage /\ last.pre = "none") => last.u \notin Sessions

\* C9: every session's jdFileName is unset or an element of availableJDs; and in
\* jd_selection an answer of the backend that (trimmed) is no element of availableJDs,
\* 'N/A' and the empty answer included, leaves the stage at jd_selection and jdFileName as
\* it was, and the re-prompt sent names the range 1..length(availableJDs).
C9_OnlyAvailableJDAccepted ==
    /\ [](\A u \in Sessions :
            \/ interviewStates[u].jdFileName = undefined
            \/ Includes(interviewStates[u].availableJDs, interviewStates[u].jdFileName))
    /\ [][\A u \in Sessions :
            (/\ last'.op = "Message" /\ last'.u = u /\ Truthy(OptTrim(last'.text))
             /\ interviewStates[u].currentStage = "jd_selection"
             /\ last'.env.selection.ok
             /\ ~Includes(interviewStates[u].availableJDs, OptTrim(last'.env.selection.content)))
            => /\ u \in Sessions'
               /\ interviewStates'[u].currentStage = "jd_selection"
               /\ interviewStates'[u].jdFileName = interviewStates[u].jdFileName
               /\ interviewStates'[u].jdContent = interviewStates[u].jdContent
               /\ sent'[1].text = selectionReprompt(Len(interviewStates[u].availableJDs))]_vars

\* C9 witness: the backend answered a file name that is not offered, and the session is
\* still in jd_selection without a JD, the re-prompt naming 2 options.
C9_Witness ==
    /\ LastWasTextMessage
    /\ last.pre = "jd_selection"
    /\ last.env.selection = Reply(<<"c", ".txt">>)
    /\ last.u \in Sessions
    /\ interviewStates[last.u].currentStage = "jd_selection"
    /\ interviewStates[last.u].jdFileName = undefined
    /\ SentTexts({selectionReprompt(2)}) = {1}

\* C10: once a session's candidateName has a value no later operation on the session
\* changes it, and likewise for jdFileName with jdContent.
C10_NameAndJDWriteOnce ==
    [][\A u \in Sessions \cap Sessions' :
          /\ interviewStates[u].candidateName # undefined
                => interviewStates'[u].candidateName = interviewStates[u].candidateName
          /\ interviewStates[u].jdFileName # undefined
                => /\ interviewStates'[u].jdFileName = interviewStates[u].jdFileName
                   /\ interviewStates'[u].jdContent = interviewStates[u].jdContent]_vars

\* the last operation was a message with text handled for u, whose session existed before it
TextTurnFor(u) == last'.op = "Message" /\ last'.u = u /\ Truthy(OptTrim(last'.text))

AllSendsOk(calls) == \A i \in 1..Len(calls) : calls[i].ok

\* C11: when the assessment call of a pre_screen or jd_questions turn fails (the backend
\* rejects or its output does not parse), the assessment recorded under the turn's label
\* has summary 'Analysis failed', an empty entity list and no clarity or relevance score,
\* and a turn whose sends succeed sends no technical-difficulties message.
C11_DegradedAssessmentRecorded ==
    [][\A u \in Sessions :
          (/\ TextTurnFor(u)
           /\ interviewStates[u].currentStage \in {"pre_screen", "jd_questions"}
           /\ ~last'.env.analysis.ok)
          => /\ u \in Sessions'
             /\ AssessmentLabel(interviewStates[u]) \in DOMAIN interviewStates'[u].responses
             /\ LET r == interviewStates'[u].responses[AssessmentLabel(interviewStates[u])]
                IN /\ r.gpt_summary = <<"Analysis failed">>
                   /\ r.entities = "[]"
                   /\ r.clarity_score = NoValue
                   /\ r.relevance_score = NoValue
             /\ (AllSendsOk(sent') => \A i \in 1..Len(sent') : sent'[i].text # errorMessage)]_vars

ValidAssessments(state) ==
    {n \in 1..Len(stages(state)) :
        /\ ~isNaN(parseInt(responseOf(state, stages(state)[n]).clarity_score))
        /\ ~isNaN(parseInt(responseOf(state, stages(state)[n]).relevance_score))}

Contains(text, part) ==
    \E i \in 1..(Len(text) - Len(part) + 1) : SubSeq(text, i, i + Len(part) - 1) = part

\* the last operation completed an interview: the summary went out and the session is gone
LastCompleted ==
    /\ LastWasTextMessage
    /\ last.pre = "closing"
    /\ last.u \notin Sessions
    /\ Len(sent) = 1
    /\ sent[1].ok

\* C13: when no stage of the interview has usable scores, the final summary reports the
\* average clarity, the average relevance and the qualification score as 'N/A' (no
\* quotient by the zero count is evaluated).
C13_NoScoresReportsNA ==
    [][\A u \in Sessions :
          (/\ TextTurnFor(u)
           /\ interviewStates[u].currentStage = "closing"
           /\ ValidAssessments(interviewStates[u]) = {})
          => /\ Len(sent') >= 1
             /\ sent'[1].text = summaryTemplate(interviewStates[u], NA, NA, NA)]_vars

\* C13 witness: an interview whose six assessments all lack a usable pair of scores was
\* completed, and the summary shows N/A three times.
C13_Witness ==
    /\ LastCompleted
    /\ Contains(sent[1].text, <<"Questions Answered: ", "5", "Average Clarity: **">> \o NA \o <<"/5**">>)
    /\ Contains(sent[1].text, <<"Average Relevance: **">> \o NA \o <<"/5**">>)
    /\ Contains(sent[1].text, <<"Qualification Score: **">> \o NA \o <<"%**">>)
    /\ Contains(sent[1].text, <<"Clarity/Relevance: ", "5", "/">> \o NA)

\* the sum of one score over a set of stages of the final report
RECURSIVE SumOfScores(_, _, _)
SumOfScores(state, counted, field) ==
    IF counted = {} THEN 0
    ELSE LET n == CHOOSE x \in counted : TRUE
         IN responseOf(state, stages(state)[n])[field].v + SumOfScores(state, counted \ {n}, field)

\* num / den rounded to the nearest tenth, written with one decimal
RoundedTenths(num, den) ==
    LET n == (20 * num + den) \div (2 * den)
    IN <<ToString(n \div 10), ".", ToString(n % 10)>>

\* round(sum / (valid * 2 * 5) * 100)
RoundedPercent(sum, valid) == <<ToString((20 * sum + valid) \div (2 * valid))>>

\* C14: when validCount > 0 stages have usable scores, the final summary reports
\* avgClarity = sumClarity / validCount and avgRelevance = sumRelevance / validCount with one
\* decimal and qualificationScore = round((sumClarity + sumRelevance) / (validCount * 2 * 5) * 100).
C14_AggregateFormulas ==
    [][\A u \in Sessions :
          (/\ TextTurnFor(u)
           /\ interviewStates[u].currentStage = "closing"
           /\ ValidAssessments(interviewStates[u]) # {})
          => LET state == interviewStates[u]
                 validCount == Cardinality(ValidAssessments(state))
                 sumClarity == SumOfScores(state, ValidAssessments(state), "clarity_score")
                 sumRelevance == SumOfScores(state, ValidAssessments(state), "relevance_score")
             IN /\ Len(sent') >= 1
                /\ sent'[1].text = summaryTemplate(state,
                                       RoundedTenths(sumClarity, validCount),
                                       RoundedTenths(sumRelevance, validCount),
                                       RoundedPercent(sumClarity + sumRelevance, validCount))]_vars

\* a recorded score that is absent (never written, or written as 'N/A') or an integer in 1..5
ScoreInContract(x) == x \in {NoValue, NAValue} \cup {Num(n) : n \in 1..5}

\* C15: every clarity or relevance score recorded in a session is absent or an integer in
\* 1..5, whatever the backend returned; and the qualification score of a final summary is
\* not available or lies in 0..100.
C15_ScoresInRange ==
    /\ [](\A u \in Sessions : \A label \in DOMAIN interviewStates[u].responses :
            /\ ScoreInContract(interviewStates[u].responses[label].clarity_score)
            /\ ScoreInContract(interviewStates[u].responses[label].relevance_score))
    /\ [][\A u \in Sessions :
            (TextTurnFor(u) /\ interviewStates[u].currentStage = "closing")
            => \E overall \in {NA} \cup {<<ToString(n)>> : n \in 0..100} :
                  /\ Len(sent') >= 1
                  /\ sent'[1].text = summaryTemplate(interviewStates[u], avgClarity(interviewStates[u]),
                                                     avgRelevance(interviewStates[u]), overall)]_vars

\* C16: while a turn of a candidate is suspended at an external call, no step of another
\* turn starts for the same identity or changes that identity's session: each turn runs to
\* completion before the next one for the session starts.
C16_TurnsNeverInterleave ==
    [][\A slot \in Slots :
          (Running(slot) /\ turns'.run[slot] = turns.run[slot])
          => LET u == turns.run[slot].u
             IN /\ \A other \in Slots \ {slot} : turns'.run[other].u = u => turns.run[other].u = u
                /\ has(interviewStates, u) = has(interviewStates', u)
                /\ has(interviewStates, u) => interviewStates'[u] = interviewStates[u]]_vars

\* C17: an operation handled for one candidate identity leaves the store entry and the
\* session of every other identity as they were (and, where handlers are suspended, the
\* handlers of the other identity and the objects they hold).
C17_SessionsIndependent ==
    [][\A b \in active :
          last'.u # b
          => /\ has(interviewStates', b) = has(interviewStates, b)
             /\ has(interviewStates, b) => interviewStates'[b] = interviewStates[b]
             /\ \A slot \in Slots :
                   turns.run[slot].u = b
                   => /\ turns'.run[slot] = turns.run[slot]
                      /\ turns.run[slot].ref # 0
                            => turns'.detached[turns.run[slot].ref] = turns.detached[turns.run[slot].ref]]_vars

\* C17 witness: the interview of u1 was completed and its entry deleted while u2 is in the
\* middle of its own interview, two answers counted.
C17_Witness ==
    /\ LastCompleted
    /\ last.u = "u1"
    /\ has(interviewStates, "u2")
    /\ interviewStates["u2"].currentStage = "jd_questions"
    /\ interviewStates["u2"].questionCount = 2
    /\ interviewStates["u2"].candidateName = <<"A", "n">>

\* part occurs in whole as a subsequence: its elements, in its order
RECURSIVE IsSubsequence(_, _)
IsSubsequence(part, whole) ==
    IF part = <<>> THEN TRUE
    ELSE IF whole = <<>> THEN FALSE
    ELSE IF Head(part) = Head(whole) THEN IsSubsequence(Tail(part), Tail(whole))
    ELSE IsSubsequence(part, Tail(whole))

\* the texts of the sends of the last operation that succeeded, in the order of the sends
DeliveredTexts(calls) ==
    LET delivered == SelectSeq(calls, LAMBDA call : call.ok)
    IN [i \in 1..Len(delivered) |-> delivered[i].text]

\* a suspended handler that has pushed the candidate's entry and has an interviewer entry to push
HasEntryToPush(t) == t.pc \in {"analysis", "question"} \/ (t.pc = "send" /\ t.after # "none")

\* C18: while a session lives its history only grows at the end; what a turn appends is the
\* candidate's entry first and then interviewer entries only, whose texts are texts the
\* turn sent, in the order of the sends; and the entries of an earlier turn precede those
\* of a later turn: nothing is appended between the entries of one turn.
C18_HistoryChronological ==
    [][/\ \A u \in active :
            (last'.op \in {"Message", "MembersAdded"} /\ last'.u = u /\ has(interviewStates', u))
            => LET old == IF has(interviewStates, u) THEN interviewStates[u].conversationHistory ELSE <<>>
                   new == interviewStates'[u].conversationHistory
                   added == SubSeq(new, Len(old) + 1, Len(new))
                   byCandidate == IF last'.op = "Message" /\ Truthy(OptTrim(last'.text)) THEN 1 ELSE 0
                   byInterviewer == SubSeq(added, byCandidate + 1, Len(added))
               IN /\ Len(new) >= Len(old)
                  /\ SubSeq(new, 1, Len(old)) = old
                  /\ Len(added) >= byCandidate
                  /\ byCandidate = 1 => added[1] = [role |-> "user", content |-> OptTrim(last'.text)]
                  /\ \A i \in 1..Len(byInterviewer) : byInterviewer[i].role = "assistant"
                  /\ IsSubsequence([i \in 1..Len(byInterviewer) |-> byInterviewer[i].content],
                                   DeliveredTexts(sent'))
       /\ \A slot \in Slots :
            (/\ Running(slot)
             /\ turns'.run[slot] = turns.run[slot]
             /\ HasEntryToPush(turns.run[slot]))
            => Obj(turns.run[slot])'.conversationHistory = Obj(turns.run[slot]).conversationHistory]_vars

NoErrorMessage(calls) == \A i \in 1..Len(calls) : calls[i].text # errorMessage

\* C19: in a turn whose sends succeed, a rejected backend call is answered by the fallback of
\* its task and never by the technical-difficulties message: selection resolution by the
\* re-prompt naming the valid range, stage still jd_selection; name extraction by the name
\* re-prompt, stage still name_prompt; the assessment by the degraded assessment, the flow
\* going on; question generation by the fallback question, stage jd_questions.
C19_BackendFailureFallbacks ==
    [][\A u \in Sessions :
          (TextTurnFor(u) /\ AllSendsOk(sent'))
          => LET state == interviewStates[u]
                 env == last'.env
             IN /\ (state.currentStage = "jd_selection" /\ ~env.selection.ok)
                      => /\ NoErrorMessage(sent')
                         /\ sent'[1].text = selectionReprompt(Len(state.availableJDs))
                         /\ interviewStates'[u].currentStage = "jd_selection"
                /\ (state.currentStage = "name_prompt" /\ ~env.name.ok)
                      => /\ NoErrorMessage(sent')
                         /\ sent'[1].text = nameClarificationMessage
                         /\ interviewStates'[u].currentStage = "name_prompt"
                /\ (state.currentStage \in {"pre_screen", "jd_questions"} /\ ~env.analysis.ok)
                      => /\ NoErrorMessage(sent')
                         /\ interviewStates'[u].responses[AssessmentLabel(state)].gpt_summary = <<"Analysis failed.">>
                         /\ interviewStates'[u].responses[AssessmentLabel(state)].entities = "[]"
                         /\ interviewStates'[u].currentStage \in {"jd_questions", "closing"}
                /\ (state.currentStage \in {"pre_screen", "jd_questions"} /\ ~env.question.ok)
                      => /\ NoErrorMessage(sent')
                         /\ sent'[1].text = errorQuestionFallback(interviewStates'[u].questionCount + 1)
                         /\ interviewStates'[u].currentStage = "jd_questions"]_vars

\* the sentinel N/A in any letter case
SentinelForms == {<<n, "/", a>> : n \in {"N", "n"}, a \in {"A", "a"}}

\* the outcomes of the name-extraction call that count as a failed extraction
ExtractionFailed(completion) ==
    \/ ~completion.ok
    \/ ~Truthy(OptTrim(completion.content))
    \/ OptTrim(completion.content) \in SentinelForms

RepromptDelivered(calls) ==
    \E i \in 1..Len(calls) : calls[i].text = nameClarificationMessage /\ calls[i].ok

\* C20: a text turn in name_prompt whose extraction fails (sentinel in any letter case, empty
\* result, backend error) and whose sends succeed sends the name re-prompt and nothing else,
\* and leaves the stage at name_prompt and candidateName unset; and every turn in which the
\* name re-prompt is delivered leaves the stage at name_prompt and candidateName unset.
C20_NameRepromptKeepsNamePrompt ==
    [][\A u \in Sessions :
          (TextTurnFor(u) /\ has(interviewStates, u))
          => LET state == interviewStates[u]
             IN /\ (state.currentStage = "name_prompt" /\ ExtractionFailed(last'.env.name)
                      /\ AllSendsOk(sent'))
                      => /\ Len(sent') = 1
                         /\ sent'[1].text = nameClarificationMessage
                         /\ interviewStates'[u].currentStage = "name_prompt"
                         /\ interviewStates'[u].candidateName = undefined
                /\ RepromptDelivered(sent')
                      => /\ has(interviewStates', u)
                         /\ interviewStates'[u].currentStage = "name_prompt"
                         /\ interviewStates'[u].candidateName = undefined]_vars

\* C21: a text turn in jd_selection that resolves to an offered file while the document store
\* reports not-found or fails, all sends succeeding, sets jdFileName to that file and
\* jdContent to the fallback description, moves to name_prompt and sends the name prompt and
\* nothing else.
C21_StoreFailureUsesFallbackJD ==
    [][\A u \in Sessions :
          (/\ TextTurnFor(u)
           /\ has(interviewStates, u)
           /\ interviewStates[u].currentStage = "jd_selection"
           /\ last'.env.selection.ok
           /\ Includes(interviewStates[u].availableJDs, OptTrim(last'.env.selection.content))
           /\ last'.env.blob \in BlobAbnormal
           /\ AllSendsOk(sent'))
          => LET chosen == OptTrim(last'.env.selection.content)
             IN /\ has(interviewStates', u)
                /\ interviewStates'[u].jdFileName = chosen
                /\ interviewStates'[u].jdContent = jdFetchFailedText(chosen)
                /\ interviewStates'[u].currentStage = "name_prompt"
                /\ Len(sent') = 1
                /\ sent'[1].text = fixedFlow.name_prompt.question]_vars

C21_Witness ==
    /\ LastWasTextMessage
    /\ last.pre = "jd_selection"
    /\ last.env.selection \in SelectionAccepted
    /\ last.env.blob = "missing"
    /\ last.env.failAt = 0
    /\ last.u \in Sessions
    /\ interviewStates[last.u].currentStage = "name_prompt"
    /\ interviewStates[last.u].jdContent = jdFetchFailedText(JdA)

\* C22: a text turn for a stored session whose stage is complete, or has no handler, leaves
\* the session as it was, its history included, and sends only the notice of that case:
\* the completed notice for complete, the unknown-state notice otherwise.
C22_NoticeOnlyLeavesSession ==
    [][\A u \in Sessions :
          (/\ TextTurnFor(u)
           /\ has(interviewStates, u)
           /\ interviewStates[u].currentStage \notin
                 {"jd_selection", "name_prompt", "pre_screen", "jd_questions", "closing"}
           /\ AllSendsOk(sent'))
          => /\ has(interviewStates', u)
             /\ interviewStates'[u] = interviewStates[u]
             /\ Len(sent') = 1
             /\ sent'[1].text = IF interviewStates[u].currentStage = "complete"
                                THEN completedMessage ELSE unknownStateMessage]_vars

\* the characters that have to be escaped, as they come in candidate or backend content
MarkupChars == {"&", "<", ">"}

EscapedMarkup(speak) == \A i \in 1..Len(speak) : speak[i] \notin MarkupChars

\* the message activities among the calls: the trace activity of the turn-error handler is
\* not a message
Messages(calls) == {i \in 1..Len(calls) : calls[i].text # turnErrorTrace}

\* C23: every message activity sent carries a spoken markup, and no '&', '<' or '>' of
\* candidate or backend content stands unescaped in it.
C23_SpokenMarkupEscaped ==
    \A i \in Messages(sent) :
        /\ sent[i].speak # undefined
        /\ EscapedMarkup(sent[i].speak)

Recorded(state) ==
    {label \in DOMAIN state.responses : state.responses[label] # EmptyResponse}

\* C25: the text that produces the final summary finds questionCount = maxQuestions and, under
\* each of the labels pre_screen, jd_q1 .. jd_q<maxQuestions> and under no other, one answer
\* with its assessment; and no operation changes an answer or an assessment recorded by an
\* earlier one.
C25_OneAssessmentPerLabel ==
    [][\A u \in Sessions :
          LET state == interviewStates[u]
          IN /\ (TextTurnFor(u) /\ state.currentStage = "closing" /\ LastCompleted')
                  => /\ state.questionCount = state.maxQuestions
                     /\ Recorded(state) = {stages(state)[n] : n \in 1..Len(stages(state))}
                     /\ \A label \in Recorded(state) :
                            /\ state.responses[label].raw_response # undefined
                            /\ state.responses[label].gpt_summary # undefined
             /\ u \in Sessions'
                  => \A label \in Recorded(state) :
                        /\ label \in DOMAIN interviewStates'[u].responses
                        /\ interviewStates'[u].responses[label] = state.responses[label]]_vars

\* C26: in every reachable state a session in name_prompt or a later stage has a jdFileName
\* that is one of its availableJDs and a jdContent that is not empty, and a session in
\* pre_screen or a later stage has a candidateName that is not empty.
C26_StageDataConsistent ==
    \A u \in Sessions :
        LET state == interviewStates[u]
        IN /\ StageRank(state.currentStage) >= StageRank("name_prompt")
                => /\ state.jdFileName # undefined
                   /\ Includes(state.availableJDs, state.jdFileName)
                   /\ state.jdContent # <<>>
           /\ StageRank(state.currentStage) >= StageRank("pre_screen")
                => Truthy(state.candidateName)

\* the stages of the final report of which exactly one score is a number
HalfScored(state) ==
    {n \in 1..Len(stages(state)) :
        isNaN(parseInt(responseOf(state, stages(state)[n]).clarity_score))
            # isNaN(parseInt(responseOf(state, stages(state)[n]).relevance_score))}

\* C27: the final summary takes the clarity sum, the relevance sum and the count of stages
\* over exactly the stages whose two scores are both numbers: a stage with one numeric score
\* adds to none of them, and the two averages are quotients by the same count.
C27_BothScoresOrNone ==
    [][\A u \in Sessions :
          (TextTurnFor(u) /\ interviewStates[u].currentStage = "closing")
          => LET state == interviewStates[u]
                 counted == ValidAssessments(state)
                 validCount == Cardinality(counted)
                 sumClarity == SumOfScores(state, counted, "clarity_score")
                 sumRelevance == SumOfScores(state, counted, "relevance_score")
             IN /\ counted \cap HalfScored(state) = {}
                /\ Len(sent') >= 1
                /\ sent'[1].text =
                      summaryTemplate(state,
                          IF validCount > 0 THEN toFixed1(sumClarity, validCount) ELSE NA,
                          IF validCount > 0 THEN toFixed1(sumRelevance, validCount) ELSE NA,
                          IF validCount > 0 THEN toFixed0Percent(sumClarity + sumRelevance, validCount)
                          ELSE NA)]_vars

\* C27 witness: an interview was completed in which an answer got clarity 5 and no numeric
\* relevance, and the averages of the summary are 4.0 and 5.0: the 5 is in no sum.
C27_Witness ==
    /\ LastCompleted
    /\ Contains(sent[1].text, <<"Clarity/Relevance: ", "5", "/">> \o NA)
    /\ Contains(sent[1].text, <<"Average Clarity: **", "4", ".", "0", "/5**",
                                "Average Relevance: **", "5", ".", "0", "/5**",
                                "Qualification Score: **", "90", "%**">>)

====
